---- MODULE Spec2Model ----
(***************************************************************************)
(* A model of package sh (sh/cmd.go): the Exec family of process runners.  *)
(*                                                                         *)
(* A Go string is a sequence of one-character strings.  A Go slice is a    *)
(* record [arr, len] that names a backing array of the heap; the array's   *)
(* length is the slice's capacity.  Every goroutine of the caller runs one *)
(* call at a time; a call advances in the steps at which it reads or       *)
(* writes memory shared with other goroutines (the heap, the environment,  *)
(* the verbose flag).                                                      *)
(***************************************************************************)
EXTENDS Integers, Sequences, FiniteSets, TLC

VARIABLES
    environ,   \* the process environment table: variable name -> value
    verbose,   \* the ambient flag mg.Verbose() reads
    heap,      \* backing arrays of the []string slices: array id -> contents
    bound,     \* the closure returned by RunCmd / OutCmd
    g          \* the caller's goroutines: goroutine -> its call frame

vars == <<environ, verbose, heap, bound, g>>

---------------------------------------------------------------------------
(* Bounds of the model *)

\* longest argument list of a direct call
MaxArgs == 2
\* longest baseArgs list given to RunCmd / OutCmd
MaxBase == 1
\* largest spare capacity of the slice given to RunCmd / OutCmd
MaxSpare == 1
\* longest extraArgs list given to a bound callable
MaxExtra == 1

---------------------------------------------------------------------------
(* Strings of the model *)

F == <<"F">>
DollarF == <<"$", "F">>
DollarFStar == <<"$", "F", "*">>
BadGlob == <<"[">>
LitX == <<"x">>
NL == <<"\n">>

\* the argument strings callers pass
ArgStrings == {DollarF, DollarFStar, BadGlob, LitX}
\* the command names callers pass
CmdStrings == {DollarFStar}
\* values a variable has in the process environment
EnvValues == {<<"a">>}
\* values an override gives a variable
OverrideValues == {<<>>, <<"b">>}
\* what a child writes to its stdout
Outputs == {<<"h">>, <<"h", "\n">>, <<"h", "\n", "\n">>}
\* exit statuses of a child that exits
ExitCodes == {0, 1, 255}

\* the names in the current directory, in the order filepath.Glob lists them
Files == << <<"$", "F">>, <<"a">>, <<"a", "b">> >>

SeqsUpTo(S, n) == UNION {[1..k -> S] : k \in 0..n}

Range(s) == {s[k] : k \in 1..Len(s)}

---------------------------------------------------------------------------
(* os.Expand *)

isShellSpecialVar(c) ==
    c \in {"*", "#", "$", "@", "!", "?", "-",
           "0", "1", "2", "3", "4", "5", "6", "7", "8", "9"}

isAlphaNum(c) ==
    c \in {"_", "0", "1", "2", "3", "4", "5", "6", "7", "8", "9",
           "a", "b", "c", "d", "e", "f", "g", "h", "i", "j", "k", "l", "m",
           "n", "o", "p", "q", "r", "s", "t", "u", "v", "w", "x", "y", "z",
           "A", "B", "C", "D", "E", "F", "G", "H", "I", "J", "K", "L", "M",
           "N", "O", "P", "Q", "R", "S", "T", "U", "V", "W", "X", "Y", "Z"}

\* number of leading alphanumerics of s
RECURSIVE alnumPrefix(_)
alnumPrefix(s) ==
    IF s # <<>> /\ isAlphaNum(Head(s)) THEN 1 + alnumPrefix(Tail(s)) ELSE 0

\* getShellName: <<name, width>> of the name that starts s, s not empty
getShellName(s) ==
    IF s[1] = "{"
    THEN IF Len(s) > 2 /\ isShellSpecialVar(s[2]) /\ s[3] = "}"
         THEN <<SubSeq(s, 2, 2), 3>>
         ELSE LET closing == {k \in 2..Len(s) : s[k] = "}"}
              IN  IF closing = {} THEN <<(<<>>), 1>>
                  ELSE LET k == CHOOSE x \in closing : \A y \in closing : x <= y
                       IN  IF k = 2 THEN <<(<<>>), 2>>
                           ELSE <<SubSeq(s, 2, k - 1), k>>
    ELSE IF isShellSpecialVar(s[1])
    THEN <<SubSeq(s, 1, 1), 1>>
    ELSE LET n == alnumPrefix(s) IN <<SubSeq(s, 1, n), n>>

\* os.Getenv: the value of name, empty when unset
Getenv(env, name) == IF name \in DOMAIN env THEN env[name] ELSE <<>>

\* expand with the lookups in the wrong order: the process environment first
expand_AmbientFirst(env, osenv, name) ==
    IF name \in DOMAIN osenv THEN osenv[name]
    ELSE IF name \in DOMAIN env THEN env[name] ELSE <<>>

\* the closure expand of Exec: the override first, then the process environment
expand(env, osenv, name) ==
    IF name \in DOMAIN env THEN env[name] ELSE Getenv(osenv, name)

\* the loop of os.Expand from position j, with the text before i already in buf
RECURSIVE ExpandLoop(_, _, _, _, _, _)
ExpandLoop(s, env, osenv, j, i, buf) ==
    IF j > Len(s) THEN buf \o SubSeq(s, i, Len(s))
    ELSE IF s[j] = "$" /\ j + 1 <= Len(s)
    THEN LET nw == getShellName(SubSeq(s, j + 1, Len(s)))
             name == nw[1]
             w == nw[2]
             buf1 == buf \o SubSeq(s, i, j - 1)
             buf2 == IF name = <<>> /\ w > 0 THEN buf1
                     ELSE IF name = <<>> THEN Append(buf1, s[j])
                     ELSE buf1 \o expand(env, osenv, name)
         IN  ExpandLoop(s, env, osenv, j + w + 1, j + w + 1, buf2)
    ELSE ExpandLoop(s, env, osenv, j + 1, i, buf)

\* os.Expand(s, expand)
Expand(s, env, osenv) == ExpandLoop(s, env, osenv, 1, 1, <<>>)

---------------------------------------------------------------------------
(* filepath.Glob over the current directory *)

hasMeta(p) == \E k \in 1..Len(p) : p[k] \in {"*", "?", "[", "\\"}

\* a pattern with a character class that is never closed
ErrBadPattern(p) ==
    \E k \in 1..Len(p) : p[k] = "[" /\ \A m \in (k + 2)..Len(p) : p[m] # "]"

RECURSIVE Match(_, _)
Match(p, name) ==
    IF p = <<>> THEN name = <<>>
    ELSE IF Head(p) = "*"
    THEN Match(Tail(p), name)
         \/ (name # <<>> /\ Head(name) # "/" /\ Match(p, Tail(name)))
    ELSE name # <<>> /\ Head(name) = Head(p) /\ Match(Tail(p), Tail(name))

\* filepath.Glob: [err, matches]
Glob(p) ==
    IF ErrBadPattern(p) THEN [err |-> TRUE, matches |-> <<>>]
    ELSE IF ~hasMeta(p)
    THEN [err |-> FALSE,
          matches |-> IF p \in Range(Files) THEN <<p>> ELSE <<>>]
    ELSE LET hit(n) == Match(p, n)
         IN  [err |-> FALSE, matches |-> SelectSeq(Files, hit)]

\* expandGlob: [err, result]
RECURSIVE expandGlobFrom(_, _, _)
expandGlobFrom(value, k, result) ==
    IF k > Len(value) THEN [err |-> FALSE, result |-> result]
    ELSE LET m == Glob(value[k])
         IN  IF m.err THEN [err |-> TRUE, result |-> <<>>]
             ELSE IF Len(m.matches) > 0
             THEN expandGlobFrom(value, k + 1, result \o m.matches)
             ELSE expandGlobFrom(value, k + 1, Append(result, value[k]))

\* expandGlob that drops an argument nothing matches
RECURSIVE expandGlobDropping(_, _, _)
expandGlobDropping(value, k, result) ==
    IF k > Len(value) THEN [err |-> FALSE, result |-> result]
    ELSE LET m == Glob(value[k])
         IN  IF m.err THEN [err |-> TRUE, result |-> <<>>]
             ELSE expandGlobDropping(value, k + 1, result \o m.matches)

expandGlob_DropUnmatched(value) == expandGlobDropping(value, 1, <<>>)

expandGlob(value) == expandGlobFrom(value, 1, <<>>)

---------------------------------------------------------------------------
(* Errors, and their classification *)

NilErr == [type |-> "nil", exited |-> FALSE, status |-> 0]

\* the error c.Run() returns for each way the launch can end.  status is
\* what the error's Sys().(exitStatus).ExitStatus() gives: the exit status
\* of a process that exited, -1 of one a signal killed.
cRunErr(end, status) ==
    CASE end = "exit" /\ status = 0 -> NilErr
      [] end = "exit" /\ status # 0 ->
            [type |-> "ExitError", exited |-> TRUE, status |-> status]
      [] end = "signal" ->
            [type |-> "ExitError", exited |-> FALSE, status |-> -1]
      [] OTHER -> [type |-> "exec.Error", exited |-> FALSE, status |-> 0]

\* CmdRan: true of nil, ee.Exited() of an *exec.ExitError, false otherwise
CmdRan(err) ==
    IF err.type = "nil" THEN TRUE
    ELSE IF err.type = "ExitError" THEN err.exited
    ELSE FALSE

\* ExitStatus without the look at the ExitError's Sys()
ExitStatus_NoSys(err) ==
    IF err.type = "nil" THEN 0
    ELSE IF err.type = "mg.Fatalf" THEN err.status
    ELSE 1

\* ExitStatus: 0 of nil; the error's own ExitStatus() when it has the
\* method (the error mg.Fatalf makes); the ExitStatus() of an
\* *exec.ExitError's Sys(); 1 of any other error
ExitStatus(err) ==
    IF err.type = "nil" THEN 0
    ELSE IF err.type = "mg.Fatalf" THEN err.status
    ELSE IF err.type = "ExitError" THEN err.status
    ELSE 1

\* strings.TrimRight in the place of TrimSuffix: every trailing newline goes
RECURSIVE TrimSuffix_All(_, _)
TrimSuffix_All(s, suffix) ==
    IF Len(suffix) > 0 /\ Len(s) >= Len(suffix)
       /\ SubSeq(s, Len(s) - Len(suffix) + 1, Len(s)) = suffix
    THEN TrimSuffix_All(SubSeq(s, 1, Len(s) - Len(suffix)), suffix)
    ELSE s

\* strings.TrimSuffix
TrimSuffix(s, suffix) ==
    IF Len(s) >= Len(suffix)
       /\ SubSeq(s, Len(s) - Len(suffix) + 1, Len(s)) = suffix
    THEN SubSeq(s, 1, Len(s) - Len(suffix))
    ELSE s

\* fmt.Sprintf("%q", arg)
RECURSIVE quoteBody(_)
quoteBody(s) ==
    IF s = <<>> THEN <<>>
    ELSE (CASE Head(s) = "\n" -> <<"\\", "n">>
            [] Head(s) = "\"" -> <<"\\", "\"">>
            [] Head(s) = "\\" -> <<"\\", "\\">>
            [] OTHER -> <<Head(s)>>) \o quoteBody(Tail(s))

Quote(s) == <<"\"">> \o quoteBody(s) \o <<"\"">>

\* strings.Join
RECURSIVE Join(_, _)
Join(elems, sep) ==
    IF elems = <<>> THEN <<>>
    ELSE IF Len(elems) = 1 THEN elems[1]
    ELSE elems[1] \o sep \o Join(Tail(elems), sep)

\* the line log.Println("exec:", cmd, strings.Join(quoted, " ")) writes
LogLine(cmd, expanded) ==
    <<"e", "x", "e", "c", ":", " ">> \o cmd \o <<" ">>
        \o Join([k \in 1..Len(expanded) |-> Quote(expanded[k])], <<" ">>)

---------------------------------------------------------------------------
(* Environments *)

\* a map with no entry (a nil map[string]string, an empty environment)
NoEnv == [n \in {} |-> <<>>]

EnvOf(name, value) == [n \in {name} |-> value]

\* the override maps callers pass
Overrides == {NoEnv} \cup {EnvOf(F, v) : v \in OverrideValues}
\* the tables the process environment takes
EnvTables == {NoEnv} \cup {EnvOf(F, v) : v \in EnvValues}

\* the orders in which a range over the keys of a map can visit them
KeyOrders(m) ==
    {o \in [1..Cardinality(DOMAIN m) -> DOMAIN m] : Range(o) = DOMAIN m}

\* the entries name=value of m, its keys visited in order o
KeyValues(m, o) == [k \in 1..Len(o) |-> o[k] \o <<"=">> \o m[o[k]]]

\* os.Environ()
Environ(osenv) ==
    KeyValues(osenv, CHOOSE o \in KeyOrders(osenv) : TRUE)

---------------------------------------------------------------------------
(* Slices *)

NilSlice == [arr |-> -1, len |-> 0]

\* the elements of slice s
Elems(h, s) == IF s.arr = -1 THEN <<>> ELSE SubSeq(h[s.arr], 1, s.len)

Cap(h, s) == IF s.arr = -1 THEN 0 ELSE Len(h[s.arr])

\* append(s, xs...) by goroutine p: [heap, slice].  The elements are
\* written into the backing array of s when its capacity holds them, and
\* into a new array (p's) otherwise.
GoAppend(h, s, xs, p) ==
    IF s.len + Len(xs) <= Cap(h, s)
    THEN [heap |-> IF xs = <<>> THEN h
                   ELSE [h EXCEPT ![s.arr] =
                            SubSeq(@, 1, s.len) \o xs
                                \o SubSeq(@, s.len + Len(xs) + 1, Len(@))],
          slice |-> [arr |-> s.arr, len |-> s.len + Len(xs)]]
    ELSE [heap |-> [h EXCEPT ![p] = Elems(h, s) \o xs],
          slice |-> [arr |-> p, len |-> s.len + Len(xs)]]

---------------------------------------------------------------------------
(* Call frames *)

\* exec.Cmd before exec.Command builds it
NoCmd ==
    [built |-> FALSE, cmd |-> <<>>, args |-> <<>>, env |-> <<>>,
     stdout |-> "nil", stderr |-> "nil", end |-> "none", status |-> 0]

NoRet == [ran |-> FALSE, err |-> NilErr, out |-> <<>>]

NoLog == [on |-> FALSE, line |-> <<>>]

\* The frame of a call that op starts: its parameters, and the values on
\* entry (cmd0, args0, extra, environ0) the claims compare the outcome with.
Frame(op, pc, env, stdout, stderr, cmd, args, args0, extra) ==
    [op |-> op, pc |-> pc, env |-> env, stdout |-> stdout, stderr |-> stderr,
     cmd |-> cmd, args |-> args, i |-> 1,
     expanded |-> <<>>, c |-> NoCmd, logged |-> NoLog, buf |-> <<>>,
     err |-> NilErr, ran |-> FALSE, code |-> 0, ret |-> NoRet,
     cmd0 |-> cmd, args0 |-> args0, extra |-> extra, environ0 |-> environ,
     v0 |-> FALSE, v1 |-> FALSE]

IdleFrame ==
    [Frame("none", "idle", NoEnv, "nil", "nil", <<>>, NilSlice, <<>>, <<>>)
        EXCEPT !.environ0 = NoEnv]

Unbound == [kind |-> "none", cmd |-> <<>>, args |-> NilSlice, base0 |-> <<>>]

Free(p) == g[p].pc = "idle"

\* the frame of a direct call by goroutine p, and the heap with the slice
\* of its variadic args, which is p's own
Entered(p, op, pc, env, stdout, stderr, cmd, args) ==
    [g EXCEPT ![p] =
        Frame(op, pc, env, stdout, stderr, cmd,
              [arr |-> p, len |-> Len(args)], args, <<>>)]

Pushed(p, args) == [heap EXCEPT ![p] = args]

---------------------------------------------------------------------------
(* The operations *)

\* RunCmd(cmd, args...): the closure keeps the caller's slice, whose
\* backing array has room for spare more elements
RunCmd(cmd, args, spare) ==
    /\ bound.kind = "none"
    /\ \A p \in DOMAIN g : Free(p)
    /\ heap' = [heap EXCEPT ![0] = args \o [k \in 1..spare |-> <<>>]]
    /\ bound' = [kind |-> "RunCmd", cmd |-> cmd,
                 args |-> [arr |-> 0, len |-> Len(args)], base0 |-> args]
    /\ UNCHANGED <<environ, verbose, g>>

OutCmd(cmd, args, spare) ==
    /\ bound.kind = "none"
    /\ \A p \in DOMAIN g : Free(p)
    /\ heap' = [heap EXCEPT ![0] = args \o [k \in 1..spare |-> <<>>]]
    /\ bound' = [kind |-> "OutCmd", cmd |-> cmd,
                 args |-> [arr |-> 0, len |-> Len(args)], base0 |-> args]
    /\ UNCHANGED <<environ, verbose, g>>

\* the closure RunCmd returned, called with args2:
\* Run(cmd, append(args, args2...)...)
RunCmdFunc(p, args2) ==
    /\ bound.kind = "RunCmd"
    /\ Free(p)
    /\ LET a == GoAppend(heap, bound.args, args2, p)
       IN  /\ heap' = a.heap
           /\ g' = [g EXCEPT ![p] =
                       Frame("RunCmd", "RunWith", NoEnv, "nil", "os.Stderr",
                             bound.cmd, a.slice,
                             bound.base0 \o args2, args2)]
    /\ UNCHANGED <<environ, verbose, bound>>

\* the closure OutCmd returned: Output(cmd, append(args, args2...)...)
OutCmdFunc(p, args2) ==
    /\ bound.kind = "OutCmd"
    /\ Free(p)
    /\ LET a == GoAppend(heap, bound.args, args2, p)
       IN  /\ heap' = a.heap
           /\ g' = [g EXCEPT ![p] =
                       Frame("OutCmd", "Exec", NoEnv, "buf", "os.Stderr",
                             bound.cmd, a.slice,
                             bound.base0 \o args2, args2)]
    /\ UNCHANGED <<environ, verbose, bound>>

\* Run(cmd, args...): RunWith(nil, cmd, args...)
Run(p, cmd, args) ==
    /\ Free(p)
    /\ heap' = Pushed(p, args)
    /\ g' = Entered(p, "Run", "RunWith", NoEnv, "nil", "os.Stderr", cmd, args)
    /\ UNCHANGED <<environ, verbose, bound>>

\* RunV: Exec(nil, os.Stdout, os.Stderr, cmd, args...)
RunV(p, cmd, args) ==
    /\ Free(p)
    /\ heap' = Pushed(p, args)
    /\ g' = Entered(p, "RunV", "Exec", NoEnv, "os.Stdout", "os.Stderr", cmd, args)
    /\ UNCHANGED <<environ, verbose, bound>>

\* RunWith is entered; its body is RunWithOutput
RunWith(p, env, cmd, args) ==
    /\ Free(p)
    /\ heap' = Pushed(p, args)
    /\ g' = Entered(p, "RunWith", "RunWith", env, "nil", "os.Stderr", cmd, args)
    /\ UNCHANGED <<environ, verbose, bound>>

\* RunWithV: Exec(env, os.Stdout, os.Stderr, cmd, args...)
RunWithV(p, env, cmd, args) ==
    /\ Free(p)
    /\ heap' = Pushed(p, args)
    /\ g' = Entered(p, "RunWithV", "Exec", env, "os.Stdout", "os.Stderr", cmd, args)
    /\ UNCHANGED <<environ, verbose, bound>>

\* Output: Exec(nil, buf, os.Stderr, cmd, args...) with a new buffer
Output(p, cmd, args) ==
    /\ Free(p)
    /\ heap' = Pushed(p, args)
    /\ g' = Entered(p, "Output", "Exec", NoEnv, "buf", "os.Stderr", cmd, args)
    /\ UNCHANGED <<environ, verbose, bound>>

\* OutputWith: Exec(env, buf, os.Stderr, cmd, args...) with a new buffer
OutputWith(p, env, cmd, args) ==
    /\ Free(p)
    /\ heap' = Pushed(p, args)
    /\ g' = Entered(p, "OutputWith", "Exec", env, "buf", "os.Stderr", cmd, args)
    /\ UNCHANGED <<environ, verbose, bound>>

\* Exec called by the program itself, with the writers it chooses
Exec(p, env, stdout, stderr, cmd, args) ==
    /\ Free(p)
    /\ heap' = Pushed(p, args)
    /\ g' = Entered(p, "Exec", "Exec", env, stdout, stderr, cmd, args)
    /\ UNCHANGED <<environ, verbose, bound>>

\* RunWith's body with the flag ignored: output is always os.Stdout
RunWithOutput_Always(p) ==
    /\ g[p].pc = "RunWith"
    /\ g' = [g EXCEPT ![p].stdout = "os.Stdout",
                      ![p].v0 = verbose,
                      ![p].pc = "Exec"]
    /\ UNCHANGED <<environ, verbose, heap, bound>>

\* RunWith's body: output is os.Stdout if mg.Verbose(), nil otherwise
RunWithOutput(p) ==
    /\ g[p].pc = "RunWith"
    /\ g' = [g EXCEPT ![p].stdout = IF verbose THEN "os.Stdout" ELSE "nil",
                      ![p].v0 = verbose,
                      ![p].pc = "Exec"]
    /\ UNCHANGED <<environ, verbose, heap, bound>>

\* Exec: cmd = os.Expand(cmd, expand)
ExecExpandCmd(p) ==
    /\ g[p].pc = "Exec"
    /\ g' = [g EXCEPT ![p].cmd = Expand(@, g[p].env, environ),
                      ![p].pc = "expandArgs"]
    /\ UNCHANGED <<environ, verbose, heap, bound>>

\* Exec: args[i] = os.Expand(args[i], expand), written into the backing array
ExecExpandArg(p) ==
    /\ g[p].pc = "expandArgs"
    /\ g[p].i <= g[p].args.len
    /\ heap' = [heap EXCEPT ![g[p].args.arr][g[p].i] =
                    Expand(@, g[p].env, environ)]
    /\ g' = [g EXCEPT ![p].i = @ + 1]
    /\ UNCHANGED <<environ, verbose, bound>>

\* run that carries on with the arguments as they are after a glob error
runExpandGlob_IgnoreErr(p) ==
    /\ g[p].pc = "expandArgs"
    /\ g[p].i > g[p].args.len
    /\ LET e == expandGlob(Elems(heap, g[p].args))
       IN  g' = [g EXCEPT ![p].expanded =
                        IF e.err THEN Elems(heap, g[p].args) ELSE e.result,
                    ![p].pc = "run"]
    /\ UNCHANGED <<environ, verbose, heap, bound>>

\* run that expands the variables of the glob's results once more
runExpandGlob_ReExpand(p) ==
    /\ g[p].pc = "expandArgs"
    /\ g[p].i > g[p].args.len
    /\ LET e == expandGlob(Elems(heap, g[p].args))
       IN  g' = [g EXCEPT ![p] =
                    IF e.err
                    THEN [@ EXCEPT !.ran = FALSE, !.code = 0,
                                   !.err = [type |-> "ErrBadPattern",
                                            exited |-> FALSE, status |-> 0],
                                   !.pc = "ExecReturn"]
                    ELSE [@ EXCEPT !.expanded =
                                       [k \in 1..Len(e.result) |->
                                           Expand(e.result[k], g[p].env, environ)],
                                   !.pc = "run"]]
    /\ UNCHANGED <<environ, verbose, heap, bound>>

\* run: expandGlob(args), and the return on its error
runExpandGlob(p) ==
    /\ g[p].pc = "expandArgs"
    /\ g[p].i > g[p].args.len
    /\ LET e == expandGlob(Elems(heap, g[p].args))
       IN  g' = [g EXCEPT ![p] =
                    IF e.err
                    THEN [@ EXCEPT !.ran = FALSE, !.code = 0,
                                   !.err = [type |-> "ErrBadPattern",
                                            exited |-> FALSE, status |-> 0],
                                   !.pc = "ExecReturn"]
                    ELSE [@ EXCEPT !.expanded = e.result, !.pc = "run"]]
    /\ UNCHANGED <<environ, verbose, heap, bound>>

\* run: c = exec.Command(cmd, expanded...), its environment and streams,
\* and the log line when mg.Verbose()
runCommand(p) ==
    /\ g[p].pc = "run"
    /\ \E o \in KeyOrders(g[p].env) :
          g' = [g EXCEPT ![p].c =
                        [built |-> TRUE, cmd |-> g[p].cmd,
                         args |-> g[p].expanded,
                         env |-> Environ(environ) \o KeyValues(g[p].env, o),
                         stdout |-> g[p].stdout, stderr |-> g[p].stderr,
                         end |-> "none", status |-> 0],
                    ![p].logged =
                        IF verbose
                        THEN [on |-> TRUE,
                              line |-> LogLine(g[p].cmd, g[p].expanded)]
                        ELSE NoLog,
                    ![p].v1 = verbose,
                    ![p].pc = "c.Run"]
    /\ UNCHANGED <<environ, verbose, heap, bound>>

\* run: err = c.Run(); return CmdRan(err), ExitStatus(err), err.  The
\* launch fails, or the child runs, writes out to its stdout, and exits
\* with a status or is killed by a signal.
runCRun(p, end, status, out) ==
    /\ g[p].pc = "c.Run"
    /\ end \in {"nostart", "exit", "signal"}
    /\ end # "exit" => status = 0
    /\ out = <<>> \/ (end # "nostart" /\ g[p].stdout = "buf")
    /\ LET err == cRunErr(end, status)
       IN  g' = [g EXCEPT ![p].c.end = end, ![p].c.status = status,
                          ![p].buf = out,
                          ![p].err = err,
                          ![p].ran = CmdRan(err),
                          ![p].code = ExitStatus(err),
                          ![p].pc = "ExecReturn"]
    /\ UNCHANGED <<environ, verbose, heap, bound>>

\* Exec's return value, after run returned (ran, code, err)
ExecResult(ran, code, err) ==
    IF err.type = "nil" THEN [ran |-> TRUE, err |-> NilErr]
    ELSE IF ran
    THEN [ran |-> ran,
          err |-> [type |-> "mg.Fatalf", exited |-> FALSE, status |-> code]]
    ELSE [ran |-> ran,
          err |-> [type |-> "fmt.Errorf", exited |-> FALSE, status |-> 0]]

\* Exec returns, and the function that called it: Output, OutputWith and
\* OutCmd's closure return the buffer without its trailing newline
ExecReturn(p) ==
    /\ g[p].pc = "ExecReturn"
    /\ LET r == ExecResult(g[p].ran, g[p].code, g[p].err)
       IN  g' = [g EXCEPT ![p].ret =
                        [ran |-> r.ran, err |-> r.err,
                         out |-> IF g[p].op \in {"Output", "OutputWith", "OutCmd"}
                                 THEN TrimSuffix(g[p].buf, NL)
                                 ELSE <<>>],
                    ![p].pc = "done"]
    /\ UNCHANGED <<environ, verbose, heap, bound>>

\* the caller takes the result; the slice of the call is garbage
Return(p) ==
    /\ g[p].pc = "done"
    /\ g' = [g EXCEPT ![p] = IdleFrame]
    /\ heap' = [heap EXCEPT ![p] = <<>>]
    /\ UNCHANGED <<environ, verbose, bound>>

\* the caller sets or unsets the variable, between its calls: a call is
\* compared with the environment it was made in
Setenv(table) ==
    /\ \A p \in DOMAIN g : Free(p)
    /\ table # environ
    /\ environ' = table
    /\ UNCHANGED <<verbose, heap, bound, g>>

\* the flag mg.Verbose() reads changes
SetVerbose ==
    /\ verbose' = ~verbose
    /\ UNCHANGED <<environ, heap, bound, g>>

---------------------------------------------------------------------------
(* Specifications *)

InitOn(procs) ==
    /\ environ \in EnvTables
    /\ verbose \in BOOLEAN
    /\ heap = [a \in {0} \cup procs |-> <<>>]
    /\ bound = Unbound
    /\ g = [p \in procs |-> IdleFrame]

\* the steps of a call in progress, but for the child's run
Step(p) ==
    \/ RunWithOutput(p)
    \/ ExecExpandCmd(p)
    \/ ExecExpandArg(p)
    \/ runExpandGlob(p)
    \/ runCommand(p)
    \/ ExecReturn(p)
    \/ Return(p)

\* c.Run(), over the ways the launch can end
Child(p, ends, codes, outs) ==
    \E end \in ends, status \in codes, out \in outs \cup {<<>>} :
        runCRun(p, end, status, out)

Ends == {"nostart", "exit", "signal"}

\* the direct calls
Direct(p) ==
    \E cmd \in CmdStrings, args \in SeqsUpTo(ArgStrings, MaxArgs) :
        \/ Run(p, cmd, args)
        \/ RunV(p, cmd, args)
        \/ Output(p, cmd, args)
        \/ \E env \in Overrides :
              \/ RunWith(p, env, cmd, args)
              \/ RunWithV(p, env, cmd, args)
              \/ OutputWith(p, env, cmd, args)
              \/ Exec(p, env, "buf", "nil", cmd, args)
              \/ Exec(p, env, "nil", "os.Stderr", cmd, args)

\* binding a callable, and calling it
Bind ==
    \E cmd \in CmdStrings, args \in SeqsUpTo(ArgStrings, MaxBase),
       spare \in 0..MaxSpare :
        \/ RunCmd(cmd, args, spare)
        \/ OutCmd(cmd, args, spare)

Bound(p) ==
    \E args2 \in SeqsUpTo(ArgStrings, MaxExtra) :
        \/ RunCmdFunc(p, args2)
        \/ OutCmdFunc(p, args2)

\* one goroutine making direct calls, one after the other
Init == InitOn({1})

Next ==
    \/ Direct(1)
    \/ Step(1)
    \/ Child(1, Ends, ExitCodes, Outputs)
    \/ \E t \in EnvTables : Setenv(t)
    \/ SetVerbose

Spec == Init /\ [][Next]_vars

\* one goroutine binding a callable and calling it, one call after the other
NextBind ==
    \/ Bind
    \/ Bound(1)
    \/ Step(1)
    \/ Child(1, Ends, ExitCodes, Outputs)
    \/ \E t \in EnvTables : Setenv(t)
    \/ SetVerbose

SpecBind == Init /\ [][NextBind]_vars

\* two goroutines calling the same callable with no coordination; their
\* children start, and exit with status 0 or 1
InitConc == InitOn({1, 2})

NextConc ==
    \/ Bind
    \/ \E p \in {1, 2} :
          \/ Bound(p)
          \/ Step(p)
          \/ Child(p, {"exit"}, {0, 1}, {<<"h", "\n">>})

SpecConc == InitConc /\ [][NextConc]_vars

---------------------------------------------------------------------------
(* What the claims speak of *)

\* the value the call of p is to give $name: the override if the map
\* has the name, else the process environment's, else nothing
Resolved(p, name) ==
    IF name \in DOMAIN g[p].env THEN g[p].env[name]
    ELSE IF name \in DOMAIN g[p].environ0 THEN g[p].environ0[name]
    ELSE <<>>

\* s with its token $F replaced by the value resolved for F; every string
\* callers pass holds at most that one token
Wanted(p, s) ==
    IF \A k \in 1..Len(s) : s[k] # "$" THEN s
    ELSE LET k == CHOOSE x \in 1..Len(s) : s[x] = "$"
         IN  SubSeq(s, 1, k - 1) \o Resolved(p, F) \o SubSeq(s, k + 2, Len(s))

WantedArgs(p) == [k \in 1..Len(g[p].args0) |-> Wanted(p, g[p].args0[k])]

\* the list that takes, for each pattern in its place, its matches if it
\* has any and the pattern itself if it has none
RECURSIVE Globbed(_)
Globbed(patterns) ==
    IF patterns = <<>> THEN <<>>
    ELSE (IF Glob(Head(patterns)).matches # <<>>
          THEN Glob(Head(patterns)).matches
          ELSE <<Head(patterns)>>) \o Globbed(Tail(patterns))

\* the variable expansion of the call of p is over
Expanded(p) ==
    \/ g[p].pc \in {"run", "c.Run", "ExecReturn", "done"}
    \/ g[p].pc = "expandArgs" /\ g[p].i > g[p].args.len

\* the child of the call of p was started
Started(p) == g[p].c.end \in {"exit", "signal"}

EndsInNewline(s) == s # <<>> /\ s[Len(s)] = "\n"

---------------------------------------------------------------------------
(* The claims *)

\* C1: when the child of a finished Exec started and exited with status N,
\* Exec returned ran=true, no error exactly when N = 0, and for N in 1..255
\* the exit-code failure made with code N, the N ExitStatus extracted.
C1_ExitCodeCarried ==
    \A p \in DOMAIN g :
        (g[p].pc = "done" /\ g[p].c.end = "exit") =>
            /\ g[p].ret.ran
            /\ (g[p].ret.err.type = "nil") <=> (g[p].c.status = 0)
            /\ g[p].c.status \in 1..255 =>
                  /\ g[p].ret.err.type = "mg.Fatalf"
                  /\ g[p].ret.err.status = g[p].c.status
                  /\ g[p].code = g[p].c.status

C1_Witness ==
    \E p \in DOMAIN g :
        /\ g[p].pc = "done" /\ g[p].c.end = "exit" /\ g[p].c.status = 255
        /\ g[p].ret.ran /\ g[p].ret.err.status = 255

\* C2: whenever the child of a finished call was started, however it ended,
\* Exec returned ran=true and no launch failure ("failed to run").
C2_RanWheneverStarted ==
    \A p \in DOMAIN g :
        (g[p].pc = "done" /\ Started(p)) =>
            /\ g[p].ret.ran
            /\ g[p].ret.err.type \in {"nil", "mg.Fatalf"}

\* C3: every call of a bound callable runs the command with the baseArgs
\* of bind time followed by the call's extraArgs, each expanded against
\* the environment of that call (and then globbed).
C3_BoundArgsEveryCall ==
    \A p \in DOMAIN g :
        (g[p].op \in {"RunCmd", "OutCmd"} /\ g[p].c.built) =>
            /\ g[p].args0 = bound.base0 \o g[p].extra
            /\ g[p].c.args = Globbed(WantedArgs(p))

\* C4: under every interleaving, each concurrent invocation gives its child
\* its own argument list (the base arguments and its own extra arguments)
\* and the environment with its own overrides.
C4_ConcurrentCallsIndependent ==
    \A p \in DOMAIN g :
        g[p].c.built =>
            /\ g[p].c.args = Globbed(WantedArgs(p))
            /\ \E o \in KeyOrders(g[p].env) :
                  g[p].c.env = Environ(g[p].environ0) \o KeyValues(g[p].env, o)

\* C5: the glob expansion replaces each argument, in its place, by its
\* matches in the order Glob gives them, or keeps it when nothing matches;
\* the result is never shorter than the list, and the command name is
\* never globbed.
C5_GlobPerArgument ==
    \A p \in DOMAIN g :
        LET a == Elems(heap, g[p].args)
        IN  /\ g[p].pc \in {"run", "c.Run"} =>
                  /\ g[p].expanded = Globbed(a)
                  /\ Len(g[p].expanded) >= Len(a)
                  /\ \A k \in 1..Len(a) :
                        Glob(a[k]).matches = <<>> => a[k] \in Range(g[p].expanded)
            /\ g[p].c.built =>
                  /\ g[p].c.args = g[p].expanded
                  /\ g[p].c.cmd = Wanted(p, g[p].cmd0)

C5_Witness ==
    \E p \in DOMAIN g :
        /\ g[p].pc = "c.Run"
        /\ g[p].args0 = <<LitX, DollarFStar>>
        /\ g[p].c.args = <<LitX, <<"a">>, <<"a", "b">> >>
        /\ g[p].c.cmd = <<"a", "*">>

\* C6: the expansion gives $F, in the command name and in every argument,
\* the override's value when the override map has F (an empty value too,
\* whatever the process environment sets), else the process environment's
\* value, else the empty string.
C6_OverrideThenAmbient ==
    \A p \in DOMAIN g :
        Expanded(p) =>
            /\ g[p].cmd = Wanted(p, g[p].cmd0)
            /\ Elems(heap, g[p].args) = WantedArgs(p)

C6_Witness ==
    \E p \in DOMAIN g :
        /\ g[p].pc = "c.Run"
        /\ g[p].env = EnvOf(F, <<>>)
        /\ g[p].environ0 = EnvOf(F, <<"a">>)
        /\ g[p].args0 = <<DollarF>>
        /\ g[p].c.args = <<(<<>>)>>

\* C7: a call with a malformed glob pattern among its arguments builds and
\* launches no child, and returns an error with ran=false.
C7_BadPatternAborts ==
    \A p \in DOMAIN g :
        (\E k \in 1..Len(g[p].args0) : ErrBadPattern(g[p].args0[k])) =>
            /\ ~g[p].c.built
            /\ g[p].c.end = "none"
            /\ g[p].pc = "done" =>
                  ~g[p].ret.ran /\ g[p].ret.err.type = "fmt.Errorf"

C7_Witness ==
    \E p \in DOMAIN g :
        /\ g[p].pc = "done"
        /\ g[p].args0 = <<LitX, BadGlob>>
        /\ ~g[p].ret.ran
        /\ g[p].ret.err.type = "fmt.Errorf"

\* C8: the patterns matched against the file system are the arguments
\* after their variable expansion, and the matches go to the process as
\* they are, with no further variable expansion.
C8_ExpandThenGlob ==
    \A p \in DOMAIN g :
        g[p].c.built => g[p].c.args = Globbed(WantedArgs(p))

C8_Witness ==
    \E p \in DOMAIN g :
        /\ g[p].c.built
        /\ g[p].args0 = <<DollarFStar>>
        /\ Resolved(p, F) = <<>>
        /\ g[p].c.args = << <<"$", "F">>, <<"a">>, <<"a", "b">> >>

\* C9: Output and OutputWith (and OutCmd's callable) return the captured
\* stdout less one trailing newline if it ends in one, and as it is
\* otherwise, whether or not the command failed.
C9_OneNewlineTrimmed ==
    \A p \in DOMAIN g :
        (g[p].pc = "done" /\ g[p].op \in {"Output", "OutputWith", "OutCmd"}) =>
            LET b == g[p].buf
            IN  /\ EndsInNewline(b) => g[p].ret.out = SubSeq(b, 1, Len(b) - 1)
                /\ ~EndsInNewline(b) => g[p].ret.out = b
                /\ b = <<"h", "\n">> => g[p].ret.out = <<"h">>
                /\ b = <<"h", "\n", "\n">> => g[p].ret.out = <<"h", "\n">>

C9_Witness ==
    \E p \in DOMAIN g :
        /\ g[p].pc = "done" /\ g[p].op = "OutputWith"
        /\ g[p].buf = <<"h", "\n", "\n">>
        /\ g[p].ret.out = <<"h", "\n">>
        /\ g[p].ret.err.type = "mg.Fatalf"

\* C10 as stated: one reading of the flag decides both, so a Run or
\* RunWith call streams stdout exactly when it logs the command line;
\* stderr is the parent's, and RunV and RunWithV always stream stdout.
C10_OneReadingDecidesBoth ==
    \A p \in DOMAIN g :
        g[p].c.built =>
            /\ g[p].op \in {"Run", "RunWith"} =>
                  /\ (g[p].c.stdout = "os.Stdout") <=> g[p].logged.on
                  /\ g[p].c.stderr = "os.Stderr"
            /\ g[p].op \in {"RunV", "RunWithV"} =>
                  g[p].c.stdout = "os.Stdout" /\ g[p].c.stderr = "os.Stderr"

\* C10 as amended: the flag is read twice in a Run or RunWith call.  The
\* reading at the start of RunWith decides alone whether stdout is
\* streamed, the reading in run before the launch decides alone whether
\* the command line is logged; the two agree when the flag is the same at
\* both readings.  stderr is the parent's, and RunV and RunWithV always
\* stream stdout.
C10_TwoReadings ==
    \A p \in DOMAIN g :
        g[p].c.built =>
            /\ g[p].logged.on <=> g[p].v1
            /\ g[p].op \in {"Run", "RunWith"} =>
                  /\ (g[p].c.stdout = "os.Stdout") <=> g[p].v0
                  /\ (g[p].c.stdout = "nil") <=> ~g[p].v0
                  /\ g[p].v0 = g[p].v1 =>
                        ((g[p].c.stdout = "os.Stdout") <=> g[p].logged.on)
                  /\ g[p].c.stderr = "os.Stderr"
            /\ g[p].op \in {"RunV", "RunWithV"} =>
                  g[p].c.stdout = "os.Stdout" /\ g[p].c.stderr = "os.Stderr"

C10_Witness ==
    \E p \in DOMAIN g :
        /\ g[p].op = "Run" /\ g[p].c.built
        /\ g[p].v0 /\ ~g[p].v1
        /\ g[p].c.stdout = "os.Stdout" /\ ~g[p].logged.on

====
